---- MODULE Spec2Model ----
(***************************************************************************)
(* Zero-width steganography engine of zw-mcp-server (src/zw_core).         *)
(*                                                                         *)
(* A character is its code point (a natural number); a string or a slice   *)
(* of chars is a sequence of code points.  Option<T> is a sequence of      *)
(* length 0 (None) or 1 (Some).  An f64 score is kept as the exact         *)
(* rational num/den it stands for.  A call that panics or cannot return    *)
(* yields Panic(..) instead of Ok(..).                                     *)
(***************************************************************************)
EXTENDS Integers, Sequences, FiniteSets, TLC

\* pc: "idle", "encoded" (text holds an encoder's output) or "done"
\* op, args: the call made last and its arguments
\* text: the text the caller holds; ret: what the call returned
\* overflow_checks: whether the build panics on integer overflow (debug
\* profile) or wraps (release profile)
\* calls: the decode strategies the last auto_decode invoked, in order
\* source: the encoder whose output text holds, "input" for a text given from
\* outside
\* stdin: the lines the client has written to the server's standard input,
\* in order, EndOfInput last once the client has closed it
\* served: how many of them the server's loop has read
\* stdout: the responses the server has written, in order
VARIABLES pc, op, args, text, ret, calls, source, overflow_checks,
          stdin, served, stdout

vars == <<pc, op, args, text, ret, calls, source, overflow_checks, stdin, served, stdout>>

(***************************************************************************)
(* Bounds of the explored inputs.                                          *)
(***************************************************************************)
MaxTextLen == 3
MaxMsgLen == 2

(***************************************************************************)
(* Generic helpers (Rust std behaviour).                                   *)
(***************************************************************************)
Min(a, b) == IF a <= b THEN a ELSE b

Max(a, b) == IF a >= b THEN a ELSE b

Range(s) == {s[i] : i \in DOMAIN s}

Count(s, P(_)) == Cardinality({i \in DOMAIN s : P(s[i])})

SeqsUpTo(S, n) == UNION {[1..k -> S] : k \in 0..n}

Repeat(c, n) == [i \in 1..n |-> c]

\* the loop `for x in s { st = step(st, x) }`; the sequence is split in halves
\* and the left half evaluated first, which keeps the evaluation depth
\* logarithmic in Len(s)
Fold(step(_, _), init, s) ==
    LET RECURSIVE go(_, _, _)
        go(st, lo, hi) ==
            IF lo > hi THEN st
            ELSE IF lo = hi THEN step(st, s[lo])
            ELSE LET mid == (lo + hi) \div 2
                     left == go(st, lo, mid)
                 IN  IF left = left THEN go(left, mid + 1, hi) ELSE left
    IN  go(init, 1, Len(s))

\* the concatenation of a sequence of sequences
Concat(pieces) == Fold(LAMBDA acc, piece : acc \o piece, <<>>, pieces)

Ok(v) == [panic |-> FALSE, val |-> v]

Panic(why) == [panic |-> TRUE, why |-> why]

\* char::is_control: general category Cc
is_control(c) == c <= 31 \/ (c >= 127 /\ c <= 159)

\* char::is_ascii_alphanumeric
is_ascii_alphanumeric(c) ==
    \/ (c >= 48 /\ c <= 57)
    \/ (c >= 65 /\ c <= 90)
    \/ (c >= 97 /\ c <= 122)

\* char::from_u32 succeeds on scalar values only
is_scalar_value(v) == v >= 0 /\ v < 1114112 /\ ~(v >= 55296 /\ v <= 57343)

\* str::contains(pattern)
contains(s, pat) ==
    \E i \in 0..(Len(s) - Len(pat)) :
        \A j \in 1..Len(pat) : s[i + j] = pat[j]

(***************************************************************************)
(* chars.rs                                                                *)
(***************************************************************************)
UNICODE_TAGS_START == 917504

UNICODE_TAGS_END == 917631

\* the code points of the catalog, in catalog order
all_zero_width_chars ==
    << 8203, 8204, 8205, 65279, 8288,
       8206, 8207, 8234, 8235, 8236, 8237, 8238, 8294, 8295, 8296, 8297,
       8289, 8290, 8291, 8292,
       6158,
       173, 847, 1564, 4447, 4448, 6068, 6069, 12644, 65440,
       65024, 65025, 65026, 65027, 65028, 65029, 65030, 65031,
       65032, 65033, 65034, 65035, 65036, 65037, 65038, 65039,
       8298, 8299, 8300, 8301, 8302, 8303,
       8232, 8233 >>

is_unicode_tag(ch) == ch >= UNICODE_TAGS_START /\ ch <= UNICODE_TAGS_END

\* the two ranges 0x2060..=0x2064 and 0x2066..=0x2069 written as one
is_zero_width_shifted(ch) ==
    \/ (ch >= 8203 /\ ch <= 8207)
    \/ (ch >= 8234 /\ ch <= 8238)
    \/ (ch >= 8288 /\ ch <= 8297)
    \/ ch = 65279
    \/ ch = 6158
    \/ ch = 173
    \/ ch = 847
    \/ ch = 1564
    \/ (ch >= 4447 /\ ch <= 4448)
    \/ (ch >= 6068 /\ ch <= 6069)
    \/ ch = 12644
    \/ ch = 65440
    \/ (ch >= 65024 /\ ch <= 65039)
    \/ (ch >= 8298 /\ ch <= 8303)
    \/ (ch >= 8232 /\ ch <= 8233)
    \/ is_unicode_tag(ch)

is_zero_width(ch) ==
    \/ (ch >= 8203 /\ ch <= 8207)      \* 0x200B..=0x200F
    \/ (ch >= 8234 /\ ch <= 8238)      \* 0x202A..=0x202E
    \/ (ch >= 8288 /\ ch <= 8292)      \* 0x2060..=0x2064
    \/ (ch >= 8294 /\ ch <= 8297)      \* 0x2066..=0x2069
    \/ ch = 65279                      \* 0xFEFF
    \/ ch = 6158                       \* 0x180E
    \/ ch = 173                        \* 0x00AD
    \/ ch = 847                        \* 0x034F
    \/ ch = 1564                       \* 0x061C
    \/ (ch >= 4447 /\ ch <= 4448)      \* 0x115F..=0x1160
    \/ (ch >= 6068 /\ ch <= 6069)      \* 0x17B4..=0x17B5
    \/ ch = 12644                      \* 0x3164
    \/ ch = 65440                      \* 0xFFA0
    \/ (ch >= 65024 /\ ch <= 65039)    \* 0xFE00..=0xFE0F
    \/ (ch >= 8298 /\ ch <= 8303)      \* 0x206A..=0x206F
    \/ (ch >= 8232 /\ ch <= 8233)      \* 0x2028..=0x2029
    \/ is_unicode_tag(ch)

(***************************************************************************)
(* engine.rs: analysis                                                     *)
(***************************************************************************)
\* the count kept for every character, zero-width or not
distribution_of_every_char(s) ==
    [cp \in Range(s) |-> Count(s, LAMBDA c : c = cp)]

\* BTreeMap<u32, usize> as a function from the keys present to their counts
distribution_of(s) ==
    [cp \in {c \in Range(s) : is_zero_width(c)} |-> Count(s, LAMBDA c : c = cp)]

RECURSIVE SumOver(_, _)
SumOver(f, keys) ==
    IF keys = {} THEN 0
    ELSE LET k == CHOOSE x \in keys : TRUE
         IN  f[k] + SumOver(f, keys \ {k})

\* distribution.values().sum()
sum_values(d) == SumOver(d, DOMAIN d)

analyze(s) ==
    LET distribution == distribution_of(s)
    IN  [ total_chars      |-> Len(s),
          visible_chars    |-> Count(s, LAMBDA c : ~is_zero_width(c) /\ ~is_control(c)),
          zero_width_count |-> sum_values(distribution),
          unique_zw_chars  |-> Cardinality(DOMAIN distribution),
          distribution     |-> distribution,
          has_unicode_tags |-> \E i \in DOMAIN s : is_unicode_tag(s[i]) ]

(***************************************************************************)
(* engine.rs: extraction                                                   *)
(***************************************************************************)
extract_all(s) == SelectSeq(s, is_zero_width)

\* a loop body that closes a run at every other character, empty or not
segment_step_pushing_empty(st, ch) ==
    IF is_zero_width(ch)
    THEN [segments |-> st.segments, current |-> Append(st.current, ch)]
    ELSE [segments |-> Append(st.segments, st.current), current |-> <<>>]

\* the loop body: st holds the closed segments and the run being collected
segment_step(st, ch) ==
    IF is_zero_width(ch)
    THEN [segments |-> st.segments, current |-> Append(st.current, ch)]
    ELSE IF st.current # <<>>
    THEN [segments |-> Append(st.segments, st.current), current |-> <<>>]
    ELSE st

\* the run still open at the end of the text left out
extract_segments_without_tail(s) ==
    Fold(segment_step, [segments |-> <<>>, current |-> <<>>], s).segments

extract_segments(s) ==
    LET st == Fold(segment_step, [segments |-> <<>>, current |-> <<>>], s)
    IN  IF st.current # <<>> THEN Append(st.segments, st.current) ELSE st.segments

(***************************************************************************)
(* engine.rs: printability gate and score                                  *)
(***************************************************************************)
\* '\n', '\r', '\t'
is_whitespace_control(c) == c = 10 \/ c = 13 \/ c = 9

\* the gate with >= in place of >
is_printable_at_half(s) ==
    /\ s # <<>>
    /\ 2 * Count(s, LAMBDA c : ~is_control(c) \/ is_whitespace_control(c)) >= Len(s)

\* printable / count > 0.5
is_printable(s) ==
    /\ s # <<>>
    /\ 2 * Count(s, LAMBDA c : ~is_control(c) \/ is_whitespace_control(c)) > Len(s)

\* the loop body that tracks cur_unp and max_unp, the longest run of control
\* characters other than \n, \r, \t
unp_step(st, c) ==
    IF is_control(c) /\ ~is_whitespace_control(c)
    THEN [cur |-> st.cur + 1, max |-> Max(st.max, st.cur + 1)]
    ELSE [cur |-> 0, max |-> st.max]

\* "flag{", "ctf{", "FLAG{", "CTF{", "key{", "KEY{"
flags ==
    { <<102, 108, 97, 103, 123>>, <<99, 116, 102, 123>>, <<70, 76, 65, 71, 123>>,
      <<67, 84, 70, 123>>, <<107, 101, 121, 123>>, <<75, 69, 89, 123>> }

\* the score returned as computed
clamp_unclamped(num) == num

\* s.max(0.0)
clamp(num) == Max(num, 0)

\* The score as the rational num/den, den = len: every term is multiplied by len.
score(s) ==
    IF s = <<>> THEN [num |-> 0, den |-> 1]
    ELSE LET len == Len(s)
             printable == Count(s, LAMBDA c : ~is_control(c))
             alnum == Count(s, is_ascii_alphanumeric)
             bonus == (IF len >= 3 THEN Min(len, 20) ELSE 0)
                      + (IF \E i \in DOMAIN s : s[i] = 32 THEN 10 ELSE 0)
                      + (IF \E f \in flags : contains(s, f) THEN 50 ELSE 0)
             max_unp == Fold(unp_step, [cur |-> 0, max |-> 0], s).max
         IN  [ num |-> clamp(30 * printable + 30 * alnum + len * bonus
                             - 5 * len * max_unp),
               den |-> len ]

\* score comparisons on the rationals
score_gt(a, n) == a.num > n * a.den

score_ge(a, b) == a.num * b.den >= b.num * a.den

(***************************************************************************)
(* u32 arithmetic on two 16-bit limbs (TLC integers are narrower than u32) *)
(***************************************************************************)
u32(n) == [hi |-> n \div 65536, lo |-> n % 65536]

U32_MAX == [hi |-> 65535, lo |-> 65535]

\* exact v * b with the overflow flag, b < 2^15
overflowing_mul(v, b) ==
    LET t == v.lo * b
        h == v.hi * b + (t \div 65536)
    IN  [hi |-> h % 65536, lo |-> t % 65536, over |-> h >= 65536]

overflowing_add(v, d) ==
    LET t == v.lo + d
        h == v.hi + (t \div 65536)
    IN  [hi |-> h % 65536, lo |-> t % 65536, over |-> h >= 65536]

\* a multiplication that wraps around 2^32
wrapping_mul(v, b) ==
    LET r == overflowing_mul(v, b)
    IN  [hi |-> r.hi, lo |-> r.lo]

saturating_mul(v, b) ==
    LET r == overflowing_mul(v, b)
    IN  IF r.over THEN U32_MAX ELSE [hi |-> r.hi, lo |-> r.lo]

saturating_add(v, d) ==
    LET r == overflowing_add(v, d)
    IN  IF r.over THEN U32_MAX ELSE [hi |-> r.hi, lo |-> r.lo]

\* value > 0 && value < 128
is_low_ascii(v) == v.hi = 0 /\ v.lo > 0 /\ v.lo < 128

\* char::from_u32(value): Some(code point) or None
char_from_u32(v) ==
    IF v.hi < 17 /\ is_scalar_value(v.hi * 65536 + v.lo)
    THEN <<v.hi * 65536 + v.lo>>
    ELSE <<>>

\* u32::from_str_radix(s, 2) on a string of '0' (48) and '1' (49):
\* Err on the empty string and on overflow
radix2_step(st, c) ==
    IF ~st.ok THEN st
    ELSE LET m == overflowing_mul(st.val, 2)
             a == overflowing_add(m, c - 48)
         IN  IF m.over \/ a.over THEN [ok |-> FALSE, val |-> u32(0)]
             ELSE [ok |-> TRUE, val |-> [hi |-> a.hi, lo |-> a.lo]]

from_str_radix2(s) ==
    IF s = <<>> THEN [ok |-> FALSE, val |-> u32(0)]
    ELSE Fold(radix2_step, [ok |-> TRUE, val |-> u32(0)], s)

\* the two symbols read the other way round
to_binary_swapped(seq, zero_char, one_char) ==
    LET kept == SelectSeq(seq, LAMBDA c : c = zero_char \/ c = one_char)
    IN  [i \in DOMAIN kept |-> IF kept[i] = zero_char THEN 49 ELSE 48]

\* filter_map of a symbol sequence to '0'/'1'; the zero symbol is tested first
to_binary(seq, zero_char, one_char) ==
    LET kept == SelectSeq(seq, LAMBDA c : c = zero_char \/ c = one_char)
    IN  [i \in DOMAIN kept |-> IF kept[i] = zero_char THEN 48 ELSE 49]

(***************************************************************************)
(* engine.rs: decode strategies                                            *)
(***************************************************************************)
Method(name, chars, n) == [name |-> name, chars |-> chars, n |-> n]

DecodeResult(method, decoded) ==
    [method |-> method, decoded |-> decoded, score |-> score(decoded)]

\* a tail that scores any non-empty text without the gate
gated_without_gate(method, result) ==
    IF result = <<>> THEN <<>> ELSE <<DecodeResult(method, result)>>

\* the shared tail of the strategies: gate, then score
gated(method, result) ==
    IF result = <<>> \/ ~is_printable(result) THEN <<>>
    ELSE <<DecodeResult(method, result)>>

decode_unicode_tags(s) ==
    LET tags == SelectSeq(s, LAMBDA cp :
                    /\ cp >= UNICODE_TAGS_START /\ cp <= UNICODE_TAGS_END
                    /\ cp - UNICODE_TAGS_START > 0
                    /\ cp - UNICODE_TAGS_START < 128)
        result == [i \in DOMAIN tags |-> tags[i] - UNICODE_TAGS_START]
    IN  gated(Method("Unicode Tags", <<>>, 0), result)

WJ == 8288

ZWSP == 8203

ZWNJ == 8204

\* str::split(WJ): the pieces between separators, empty ones included
split(s, sep) ==
    Fold(LAMBDA parts, c :
             IF c = sep THEN Append(parts, <<>>)
             ELSE [parts EXCEPT ![Len(parts)] = Append(@, c)],
         <<<<>>>>, s)

\* a group of value 0 emitted as U+0000 instead of skipped
steganographr_part_keeps_zero(part) ==
    LET binary == to_binary(part, ZWSP, ZWNJ)
        parsed == from_str_radix2(binary)
    IN  IF part = <<>> \/ binary = <<>> \/ ~parsed.ok THEN <<>>
        ELSE char_from_u32(parsed.val)

\* the character a Steganographr group yields, if any
steganographr_part(part) ==
    LET binary == to_binary(part, ZWSP, ZWNJ)
        parsed == from_str_radix2(binary)
    IN  IF part = <<>> \/ binary = <<>> \/ ~parsed.ok THEN <<>>
        ELSE IF parsed.val.hi > 0 \/ parsed.val.lo > 0
        THEN char_from_u32(parsed.val)
        ELSE <<>>

decode_steganographr(s) ==
    LET zw_only == SelectSeq(s, LAMBDA c : c = WJ \/ c = ZWSP \/ c = ZWNJ)
        parts == split(zw_only, WJ)
        chars == [i \in DOMAIN parts |-> steganographr_part(parts[i])]
    IN  IF zw_only = <<>> THEN <<>>
        ELSE gated(Method("Steganographr", <<>>, 0), Concat(chars))

\* the k-th full chunk of slice::chunks(size)
chunk(s, size, k) == SubSeq(s, (k - 1) * size + 1, k * size)

\* the character a full chunk of a bit stream yields, if any
binary_chunk_char(bin) ==
    LET parsed == from_str_radix2(bin)
    IN  IF parsed.ok /\ is_low_ascii(parsed.val) THEN <<parsed.val.lo>> ELSE <<>>

decode_direct_binary(zw_seq, zero_char, one_char, bits) ==
    LET binary == to_binary(zw_seq, zero_char, one_char)
        full == Len(binary) \div bits
        chars == [k \in 1..full |-> binary_chunk_char(chunk(binary, bits, k))]
    IN  IF Len(binary) < bits THEN Ok(<<>>)
        ELSE IF bits = 0 THEN Panic("chunk size must be non-zero")
        ELSE Ok(gated(Method("binary", <<zero_char, one_char>>, bits),
                      Concat(chars)))

\* usize::MAX; TLC integers stop at 2^31 - 1, and the model only ever compares
\* this value for equality
USIZE_MAX == 2147483647

RECURSIVE capped_pow(_, _, _)
capped_pow(b, k, cap) ==
    IF k = 0 THEN 1 ELSE Min(cap, capped_pow(b, k - 1, cap) * b)

\* ((16.0f64) / (base as f64).log2()).ceil() as usize
\*   base 0: log2 = -inf, 16 / -inf = -0.0, cast gives 0
\*   base 1: log2 = 0, 16 / 0 = +inf, the cast saturates at usize::MAX
\*   base >= 2: the least k with base^k >= 2^16
chars_per_unicode(base) ==
    IF base = 0 THEN 0
    ELSE IF base = 1 THEN USIZE_MAX
    ELSE CHOOSE k \in 1..16 :
            /\ capped_pow(base, k, 65536) >= 65536
            /\ \A j \in 1..(k - 1) : capped_pow(base, j, 65536) < 65536

\* the group sizes decode_nary tries, in order; chars_per_unicode + 1 wraps
\* to 0 in a build without overflow checks
try_sizes(cpu) ==
    LET plus == IF cpu = USIZE_MAX THEN 0 ELSE cpu + 1
        s == <<cpu>> \o (IF cpu > 1 THEN <<cpu - 1>> ELSE <<>>) \o <<plus>>
    IN  s \o SelectSeq(<<4, 5, 6, 7, 8>>, LAMBDA extra : extra \notin Range(s))

\* HashMap<char, usize> collected from (c, i): a later index replaces an earlier
char_to_digit(charset, c) ==
    CHOOSE i \in 0..(Len(charset) - 1) :
        /\ charset[i + 1] = c
        /\ \A j \in (i + 1)..(Len(charset) - 1) : charset[j + 1] # c

\* value = value.saturating_mul(base).saturating_add(d) over a chunk
group_value(chunk_digits, base) ==
    Fold(LAMBDA value, d : saturating_add(saturating_mul(value, base), d),
         u32(0), chunk_digits)

\* a candidate that a short last chunk aborts
nary_candidate_aborting_on_short(digits, base, group_size) ==
    Fold(LAMBDA st, k :
             IF ~st.ok THEN st
             ELSE LET value == group_value(chunk(digits, group_size, k), base)
                      c == char_from_u32(value)
                  IN  IF value.hi = 0 /\ value.lo = 0 THEN st
                      ELSE IF c = <<>> THEN [st EXCEPT !.ok = FALSE]
                      ELSE [st EXCEPT !.text = @ \o c],
         [ok |-> Len(digits) % group_size = 0, text |-> <<>>, size |-> group_size],
         [k \in 1..(Len(digits) \div group_size) |-> k])

\* one candidate group size: the loop over the full chunks, which stops at the
\* first value that is no character; a short last chunk is left out
nary_candidate(digits, base, group_size) ==
    Fold(LAMBDA st, k :
             IF ~st.ok THEN st
             ELSE LET value == group_value(chunk(digits, group_size, k), base)
                      c == char_from_u32(value)
                  IN  IF value.hi = 0 /\ value.lo = 0 THEN st
                      ELSE IF c = <<>> THEN [st EXCEPT !.ok = FALSE]
                      ELSE [st EXCEPT !.text = @ \o c],
         [ok |-> TRUE, text |-> <<>>, size |-> group_size],
         [k \in 1..(Len(digits) \div group_size) |-> k])

nary_results(digits, charset, sizes) ==
    LET base == Len(charset)
        usable == SelectSeq(sizes, LAMBDA g : ~(g < 1 \/ g > 16))
        kept == SelectSeq([i \in DOMAIN usable |->
                              nary_candidate(digits, base, usable[i])],
                          LAMBDA c : /\ c.ok
                                     /\ c.text # <<>>
                                     /\ is_printable(c.text)
                                     /\ score_gt(score(c.text), 15))
    IN  Fold(LAMBDA results, c :
                 Append(results,
                        DecodeResult(Method("nary", charset, c.size), c.text)),
             <<>>, kept)

\* decode_nary without its early return for a charset of fewer than 2 symbols
decode_nary_unguarded(zw_seq, charset) ==
    LET base == Len(charset)
        known == SelectSeq(zw_seq, LAMBDA c : c \in Range(charset))
        digits == [i \in DOMAIN known |-> char_to_digit(charset, known[i])]
        cpu == chars_per_unicode(base)
    IN  IF digits = <<>> THEN Ok(<<>>)
        ELSE IF cpu = USIZE_MAX /\ overflow_checks
        THEN Panic("attempt to add with overflow")
        ELSE Ok(nary_results(digits, charset, try_sizes(cpu)))

decode_nary(zw_seq, charset) ==
    LET base == Len(charset)
        known == SelectSeq(zw_seq, LAMBDA c : c \in Range(charset))
        digits == [i \in DOMAIN known |-> char_to_digit(charset, known[i])]
        cpu == chars_per_unicode(base)
    IN  IF base < 2 THEN Ok(<<>>)
        ELSE IF digits = <<>> THEN Ok(<<>>)
        ELSE IF cpu = USIZE_MAX /\ overflow_checks
        THEN Panic("attempt to add with overflow")
        ELSE Ok(nary_results(digits, charset, try_sizes(cpu)))

\* a loop body that gives up on a segment holding any other symbol
segment_char_rejecting_foreign(seg, zero_char, one_char, bits) ==
    LET parsed == from_str_radix2(to_binary(seg, zero_char, one_char))
    IN  IF Len(seg) # bits \/ \E i \in DOMAIN seg : seg[i] \notin {zero_char, one_char}
        THEN <<>>
        ELSE IF parsed.ok /\ is_low_ascii(parsed.val) THEN <<parsed.val.lo>>
        ELSE <<>>

\* the character a segment yields, or <<>> where the decode gives up
segment_char(seg, zero_char, one_char, bits) ==
    LET binary == to_binary(seg, zero_char, one_char)
        parsed == from_str_radix2(binary)
    IN  IF Len(binary) # bits THEN <<>>
        ELSE IF parsed.ok /\ is_low_ascii(parsed.val) THEN <<parsed.val.lo>>
        ELSE <<>>

decode_segmented_binary(segments, zero_char, one_char, bits) ==
    LET chars == [i \in DOMAIN segments |->
                    segment_char(segments[i], zero_char, one_char, bits)]
    IN  IF \E i \in DOMAIN chars : chars[i] = <<>> THEN <<>>
        ELSE gated(Method("segmented binary", <<zero_char, one_char>>, bits),
                   Concat(chars))

(***************************************************************************)
(* engine.rs: encoders                                                     *)
(***************************************************************************)
\* (val >> i) & 1 for a char value (below 2^21) and i < 32
bit(val, i) == IF i >= 21 THEN 0 ELSE (val \div (2 ^ i)) % 2

\* the bits emitted least significant first (the loop without .rev())
bits_of_lsb_first(val, zero_char, one_char, width) ==
    [k \in 1..width |->
        IF bit(val, (k - 1) % 32) = 1 THEN one_char ELSE zero_char]

\* the symbols of one character, most significant bit first; a shift by 32
\* or more is masked to the low five bits where it does not panic
bits_of(val, zero_char, one_char, width) ==
    [k \in 1..width |->
        IF bit(val, (width - k) % 32) = 1 THEN one_char ELSE zero_char]

encode_binary(message, zero_char, one_char, bits) ==
    LET groups == [n \in DOMAIN message |->
                      bits_of(message[n], zero_char, one_char, bits)]
    IN  IF message # <<>> /\ bits > 32 /\ overflow_checks
        THEN Panic("attempt to shift right with overflow")
        ELSE Ok(Concat(groups))

\* str::len(): bytes of the UTF-8 encoding
utf8_len(s) ==
    LET bytes(c) == IF c < 128 THEN 1 ELSE IF c < 2048 THEN 2
                    ELSE IF c < 65536 THEN 3 ELSE 4
    IN  Fold(LAMBDA total, c : total + bytes(c), 0, s)

\* a splice that returns the cover and leaves the payload out
splice_without_payload(cover, encoded) ==
    IF utf8_len(cover) > 1 THEN cover ELSE encoded

\* the cover splice shared by encode_steganographr, encode_tags, encode_330k
splice(cover, encoded) ==
    IF utf8_len(cover) > 1
    THEN LET mid == Len(cover) \div 2
         IN  SubSeq(cover, 1, mid) \o encoded \o SubSeq(cover, mid + 1, Len(cover))
    ELSE encoded

encode_steganographr(message, cover) ==
    LET groups == [n \in DOMAIN message |->
                      Append(bits_of(message[n], ZWSP, ZWNJ, 8), WJ)]
    IN  splice(cover, Concat(groups))

encode_tags(message, cover) ==
    LET kept == SelectSeq(message, LAMBDA cp : cp < 128)
        encoded == [i \in DOMAIN kept |-> UNICODE_TAGS_START + kept[i]]
    IN  splice(cover, encoded)

\* val after k divisions by base
RECURSIVE div_times(_, _, _)
div_times(val, base, k) ==
    IF k = 0 THEN val ELSE div_times(val, base, k - 1) \div base

\* the digits least significant first (the loop without digits.reverse())
digits_of_lsb_first(val, base, count) ==
    [k \in 1..count |-> div_times(val, base, k - 1) % base]

\* the digits of one character, most significant first
digits_of(val, base, count) ==
    [k \in 1..count |-> div_times(val, base, count - k) % base]

encode_330k(message, cover, charset) ==
    LET base == Len(charset)
        cpu == chars_per_unicode(base)
        groups == [n \in DOMAIN message |->
                      LET digits == digits_of(message[n], base, cpu)
                      IN  [k \in DOMAIN digits |-> charset[digits[k] + 1]]]
    IN  IF message # <<>> /\ cpu = USIZE_MAX
        THEN Panic("digits grows until the allocation fails")
        ELSE Ok(splice(cover, Concat(groups)))

(***************************************************************************)
(* tools.rs: exec_encode, the zw_encode tool (cover_text given inline, no  *)
(* output_path)                                                            *)
(***************************************************************************)
\* ToolCallResult::error
ToolError(why) == [panic |-> FALSE, error |-> why, val |-> <<>>]

\* the encoded text the tool reports
exec_encode(method, message, cover) ==
    CASE method = "binary" ->
            LET zw == encode_binary(message, ZWSP, ZWNJ, 8)
                mid == Len(cover) \div 2
            IN  IF zw.panic THEN zw
                ELSE IF cover # <<>>
                THEN Ok(SubSeq(cover, 1, mid) \o zw.val
                            \o SubSeq(cover, mid + 1, Len(cover)))
                ELSE zw
      [] method = "steganographr" -> Ok(encode_steganographr(message, cover))
      [] method = "tags" -> Ok(encode_tags(message, cover))
      [] method = "330k" -> encode_330k(message, cover, <<8204, 8205, 8236, 65279>>)
      [] OTHER -> ToolError("unknown method")

(***************************************************************************)
(* engine.rs: auto_decode                                                  *)
(***************************************************************************)
\* the charsets of the six presets, in order
encoding_presets ==
    << <<8204, 8205, 8236, 65279>>,      \* 330k_default
       <<8288, 8203, 8204>>,             \* steganographr
       <<8203, 8204, 8205, 65279>>,      \* stegcloak
       <<8203, 8204>>,                   \* zwsp_binary
       <<8203, 8204, 8205>>,             \* common_3char
       <<8203, 8204, 8205, 65279>> >>    \* irongeek_zw

\* the observed code points by descending count; the stable sort leaves equal
\* counts in the map's ascending code-point order
top_chars_of(distribution) ==
    LET keys == DOMAIN distribution
        before(a, b) == \/ distribution[a] > distribution[b]
                        \/ (distribution[a] = distribution[b] /\ a < b)
        rank(k) == Cardinality({x \in keys : before(x, k)}) + 1
    IN  [i \in 1..Cardinality(keys) |-> CHOOSE k \in keys : rank(k) = i]

StrategyCall(strategy, chars, n) == [strategy |-> strategy, chars |-> chars, n |-> n]

\* for i in 0..limit { for j in 0..limit { if i == j continue; for bits in [8, 7] } }
\* with top_chars[i], top_chars[j] indexed as the code indexes them
pair_calls(strategy, top_chars, limit) ==
    LET all == [k \in 1..(limit * limit * 2) |->
                   LET i == (k - 1) \div (2 * limit)
                       j == ((k - 1) \div 2) % limit
                       bits == IF (k - 1) % 2 = 0 THEN 8 ELSE 7
                   IN  IF i = j THEN <<>>
                       ELSE IF i >= Len(top_chars) \/ j >= Len(top_chars)
                       THEN <<StrategyCall("index out of bounds", <<>>, 0)>>
                       ELSE <<StrategyCall(strategy,
                                   <<top_chars[i + 1], top_chars[j + 1]>>, bits)>>]
    IN  Concat(all)

\* a sweep over every observed symbol
binary_limit_unclamped(top_chars) == Len(top_chars)

\* top_chars.len().min(6)
binary_limit(top_chars) == Min(Len(top_chars), 6)

\* top_chars.len().min(4)
segmented_limit(top_chars) == Min(Len(top_chars), 4)

\* for n in 3..top_chars.len().min(9): the end of the range is exclusive
observed_sizes(top_chars) ==
    LET hi == Min(Len(top_chars), 9)
    IN  [k \in 1..Max(hi - 3, 0) |-> k + 2]

\* every strategy call of the sweep, in the order the code makes them
sweep_calls(s) ==
    LET analysis == analyze(s)
        segments == extract_segments(s)
        top_chars == top_chars_of(analysis.distribution)
        presets == SelectSeq(encoding_presets, LAMBDA chars :
                       Cardinality({i \in DOMAIN chars :
                                      chars[i] \in DOMAIN analysis.distribution}) >= 2)
        sizes == observed_sizes(top_chars)
    IN  <<StrategyCall("tags", <<>>, 0), StrategyCall("steganographr", <<>>, 0)>>
        \o [i \in DOMAIN presets |-> StrategyCall("preset nary", presets[i], 0)]
        \o (IF Len(top_chars) >= 2
            THEN pair_calls("binary", top_chars, binary_limit(top_chars))
            ELSE <<>>)
        \o (IF Len(top_chars) >= 3
            THEN [i \in DOMAIN sizes |->
                     StrategyCall("observed nary", SubSeq(top_chars, 1, sizes[i]), 0)]
            ELSE <<>>)
        \o (IF segments # <<>> /\ Len(top_chars) >= 2
            THEN pair_calls("segmented", top_chars, segmented_limit(top_chars))
            ELSE <<>>)

\* the sweep entered whatever zero_width_count is
strategy_calls_without_early_return(s) == sweep_calls(s)

\* a sweep that stops after the two strategies that take no parameters
strategy_calls_fixed_only(s) ==
    IF analyze(s).zero_width_count = 0 THEN <<>> ELSE SubSeq(sweep_calls(s), 1, 2)

\* the calls auto_decode makes: none when the text has no zero-width character
strategy_calls(s) ==
    IF analyze(s).zero_width_count = 0 THEN <<>> ELSE sweep_calls(s)

\* if r.score > 15.0 { results.push(r) }
above_15(option) == SelectSeq(option, LAMBDA r : score_gt(r.score, 15))

\* what one call adds to results
run_call(c, s, zw_all, segments) ==
    CASE c.strategy = "tags" -> Ok(decode_unicode_tags(s))
      [] c.strategy = "steganographr" -> Ok(decode_steganographr(s))
      [] c.strategy \in {"preset nary", "observed nary"} -> decode_nary(zw_all, c.chars)
      [] c.strategy = "binary" ->
            LET r == decode_direct_binary(zw_all, c.chars[1], c.chars[2], c.n)
            IN  IF r.panic THEN r ELSE Ok(above_15(r.val))
      [] c.strategy = "segmented" ->
            Ok(above_15(decode_segmented_binary(segments, c.chars[1], c.chars[2], c.n)))
      [] OTHER -> Panic(c.strategy)

\* a clean-up that keeps the last result of a text in place of the first
dedup_keeping_last(results) ==
    Fold(LAMBDA kept, r :
             SelectSeq(kept, LAMBDA q : q.decoded # r.decoded) \o <<r>>,
         <<>>, results)

\* results.retain(|r| seen.insert(r.decoded.clone()))
dedup(results) ==
    Fold(LAMBDA kept, r :
             IF \E k \in DOMAIN kept : kept[k].decoded = r.decoded
             THEN kept
             ELSE Append(kept, r),
         <<>>, results)

\* results.sort_by(|a, b| b.score.partial_cmp(&a.score)): stable, descending
\* (an insertion after the entries that do not score less)
sort_by_score(results) ==
    Fold(LAMBDA sorted, x :
             LET p == Cardinality({k \in DOMAIN sorted :
                                     score_ge(sorted[k].score, x.score)})
             IN  SubSeq(sorted, 1, p) \o <<x>> \o SubSeq(sorted, p + 1, Len(sorted)),
         <<>>, results)

\* what every strategy call of the sweep returned, in the order of the calls
strategy_outcomes(s) ==
    LET zw_all == extract_all(s)
        segments == extract_segments(s)
        made == strategy_calls(s)
    IN  [i \in DOMAIN made |-> run_call(made[i], s, zw_all, segments)]

auto_decode(s) ==
    LET outcomes == strategy_outcomes(s)
        panicked == SelectSeq(outcomes, LAMBDA o : o.panic)
        found == [i \in DOMAIN outcomes |-> outcomes[i].val]
    IN  IF panicked # <<>>
        THEN Head(panicked)
        ELSE Ok(sort_by_score(dedup(Concat(found))))

(***************************************************************************)
(* Inputs                                                                  *)
(***************************************************************************)
\* every code point of the blocks that hold the catalog and the tag range
CodePoints == (0..12800) \cup (64256..65535) \cup (917376..917760)

\* ZWSP, ZWNJ, WJ, TAG LATIN CAPITAL LETTER A, 'a', '\n'
TextChars == {8203, 8204, 8288, 917569, 97, 10}

\* Steganographr groups of 33 one-bits, of 'H', of one zero bit and of the
\* surrogate U+D800
FourGroups ==
    Repeat(8204, 33) \o <<8288>>
    \o <<8203, 8204, 8203, 8203, 8204, 8203, 8203, 8203>> \o <<8288>>
    \o <<8203>> \o <<8288>>
    \o <<8204, 8204, 8203, 8204, 8204>> \o Repeat(8203, 11)

\* 33 one-bits (more than a u32 holds), a 'A' in 8 and in 7 bits, "Hi" in tags
\* with a control character, four distinct symbols, ten distinct symbols,
\* the 8 bits of 'A' followed by a third symbol, the 8 digits of 2^32 + 65 in
\* base 17 over SeventeenSymbols, FourGroups, a run between two visible
\* characters, runs parted by control and by consecutive visible characters
LongTexts ==
    { Repeat(8204, 33),
      <<8203, 8204, 8203, 8203, 8203, 8203, 8203, 8204>>,
      <<8204, 97, 8203, 8203, 8203, 8203, 8203, 8204, 8288>>,
      <<917576, 917609, 917505>>,
      <<8203, 8204, 8205, 8288, 8203>>,
      <<8203, 8204, 8205, 8206, 8207, 8288, 8289, 8290, 8291, 65279>>,
      <<8203, 8204, 8203, 8203, 8203, 8203, 8203, 8204, 8288>>,
      <<8288, 8236, 8293, 8293, 8291, 8288, 8290, 8293>>,
      FourGroups,
      <<97, 8203, 8204, 98>>,
      <<8203, 10, 1, 8204, 8288, 97, 98, 65279>> }

Texts == SeqsUpTo(TextChars, MaxTextLen) \cup LongTexts

\* NUL, a control character, 'H', 'I', e-acute, an emoji beyond 16 bits
MsgChars == {0, 1, 72, 73, 233, 128512}

\* and the last code point of 16 bits followed by 'H', a control character
\* between 'H' and 'I'
Messages == SeqsUpTo(MsgChars, MaxMsgLen) \cup { <<65535, 72>>, <<72, 1, 73>> }

\* "", "a", e-acute (two bytes), "ab", "a" ZWSP "b"
Covers == { <<>>, <<97>>, <<233>>, <<97, 98>>, <<97, 8203, 98>> }

SymbolPairs == { <<8203, 8204>>, <<8204, 8203>>, <<8205, 97>>, <<8203, 8203>> }

EncodeBits == {0, 7, 8, 33}

DecodeBits == {0, 2, 7, 8}

\* a charset whose 8-digit numbers exceed a u32
SeventeenSymbols ==
    <<8203, 8204, 8205, 8206, 8207, 8234, 8235, 8236, 8237, 8238,
      8288, 8289, 8290, 8291, 8292, 8293, 65279>>

\* sizes 0, 1, 2, 3, 4, 17, and one with a repeated symbol
Charsets ==
    { <<>>, <<8203>>, <<8203, 8204>>, <<8288, 8203, 8204>>,
      <<8204, 8205, 8236, 65279>>, <<8203, 8204, 8203>>, SeventeenSymbols }

\* "flag{", a long run of control characters, one broken by a newline
ScoreTexts ==
    Texts \cup Messages
    \cup { <<102, 108, 97, 103, 123>>, Repeat(1, 30), Repeat(1, 12) \o <<10, 65, 32>> }

SegmentLists == {extract_segments(t) : t \in Texts}

\* the four methods of zw_encode and one it does not know
Methods == {"binary", "steganographr", "tags", "330k", "rot13"}

NoArgs ==
    [message |-> <<>>, cover |-> <<>>, chars |-> <<>>, bits |-> 0, ch |-> 0,
     method |-> ""]

(***************************************************************************)
(* The caller: one call at a time, on inputs of its choice or on the text  *)
(* an encoder returned.                                                    *)
(***************************************************************************)
Init ==
    /\ pc = "idle"
    /\ op = "none"
    /\ args = NoArgs
    /\ text = <<>>
    /\ ret = Ok(<<>>)
    /\ calls = <<>>
    /\ source = "input"
    /\ overflow_checks \in BOOLEAN
    /\ stdin = <<>>
    /\ served = 0
    /\ stdout = <<>>

\* a call on an input text that returns r
Returned(name, a, t, r) ==
    /\ pc' = "done"
    /\ op' = name
    /\ args' = a
    /\ text' = t
    /\ ret' = r
    /\ calls' = <<>>
    /\ source' = "input"
    /\ UNCHANGED <<overflow_checks, stdin, served, stdout>>

Classify ==
    /\ pc = "idle"
    /\ \E ch \in CodePoints :
          Returned("is_zero_width", [NoArgs EXCEPT !.ch = ch], <<>>,
                   Ok(is_zero_width(ch)))

Analyze ==
    /\ pc = "idle"
    /\ \E t \in Texts : Returned("analyze", NoArgs, t, Ok(analyze(t)))

ExtractAll ==
    /\ pc = "idle"
    /\ \E t \in Texts : Returned("extract_all", NoArgs, t, Ok(extract_all(t)))

ExtractSegments ==
    /\ pc = "idle"
    /\ \E t \in Texts :
          Returned("extract_segments", NoArgs, t, Ok(extract_segments(t)))

Score ==
    /\ pc = "idle"
    /\ \E t \in ScoreTexts : Returned("score", NoArgs, t, Ok(score(t)))

DecodeUnicodeTags ==
    /\ pc = "idle"
    /\ \E t \in Texts :
          Returned("decode_unicode_tags", NoArgs, t, Ok(decode_unicode_tags(t)))

DecodeSteganographr ==
    /\ pc = "idle"
    /\ \E t \in Texts :
          Returned("decode_steganographr", NoArgs, t, Ok(decode_steganographr(t)))

DecodeDirectBinary ==
    /\ pc = "idle"
    /\ \E zw_seq \in Texts, pair \in SymbolPairs, bits \in DecodeBits :
          Returned("decode_direct_binary",
                   [NoArgs EXCEPT !.chars = pair, !.bits = bits], zw_seq,
                   decode_direct_binary(zw_seq, pair[1], pair[2], bits))

DecodeNary ==
    /\ pc = "idle"
    /\ \E zw_seq \in Texts, charset \in Charsets :
          Returned("decode_nary", [NoArgs EXCEPT !.chars = charset], zw_seq,
                   decode_nary(zw_seq, charset))

DecodeSegmentedBinary ==
    /\ pc = "idle"
    /\ \E segments \in SegmentLists, pair \in SymbolPairs, bits \in DecodeBits :
          Returned("decode_segmented_binary",
                   [NoArgs EXCEPT !.chars = pair, !.bits = bits], segments,
                   Ok(decode_segmented_binary(segments, pair[1], pair[2], bits)))

AutoDecode ==
    /\ pc = "idle"
    /\ \E t \in Texts :
          /\ pc' = "done"
          /\ op' = "auto_decode"
          /\ args' = NoArgs
          /\ text' = t
          /\ ret' = auto_decode(t)
          /\ calls' = strategy_calls(t)
          /\ source' = "input"
          /\ UNCHANGED <<overflow_checks, stdin, served, stdout>>

\* an encoder call: the caller keeps the returned string in text
Encoded(name, a, r) ==
    /\ pc' = IF r.panic THEN "done" ELSE "encoded"
    /\ op' = name
    /\ args' = a
    /\ text' = IF r.panic THEN <<>> ELSE r.val
    /\ ret' = r
    /\ calls' = <<>>
    /\ source' = name
    /\ UNCHANGED <<overflow_checks, stdin, served, stdout>>

EncodeBinary ==
    /\ pc = "idle"
    /\ \E message \in Messages, pair \in SymbolPairs, bits \in EncodeBits :
          Encoded("encode_binary",
                  [NoArgs EXCEPT !.message = message, !.chars = pair, !.bits = bits],
                  encode_binary(message, pair[1], pair[2], bits))

EncodeSteganographr ==
    /\ pc = "idle"
    /\ \E message \in Messages, cover \in Covers :
          Encoded("encode_steganographr",
                  [NoArgs EXCEPT !.message = message, !.cover = cover],
                  Ok(encode_steganographr(message, cover)))

EncodeTags ==
    /\ pc = "idle"
    /\ \E message \in Messages, cover \in Covers :
          Encoded("encode_tags",
                  [NoArgs EXCEPT !.message = message, !.cover = cover],
                  Ok(encode_tags(message, cover)))

Encode330k ==
    /\ pc = "idle"
    /\ \E message \in Messages, cover \in Covers, charset \in Charsets :
          Encoded("encode_330k",
                  [NoArgs EXCEPT !.message = message, !.cover = cover,
                                 !.chars = charset],
                  encode_330k(message, cover, charset))

\* the zw_encode tool on a message and a cover text
ExecEncode ==
    /\ pc = "idle"
    /\ \E method \in Methods, message \in Messages, cover \in Covers :
          Encoded("exec_encode",
                  [NoArgs EXCEPT !.method = method, !.message = message,
                                 !.cover = cover],
                  exec_encode(method, message, cover))

\* a decode of the text an encoder returned, with the encoder's own parameters
DecodedBack(name, r) ==
    /\ pc = "encoded"
    /\ pc' = "done"
    /\ op' = name
    /\ ret' = r
    /\ calls' = <<>>
    /\ UNCHANGED <<args, text, source, overflow_checks, stdin, served, stdout>>

DecodeBinaryPayload ==
    /\ source = "encode_binary"
    /\ DecodedBack("decode_direct_binary",
                   decode_direct_binary(text, args.chars[1], args.chars[2], args.bits))

DecodeSteganographrPayload ==
    /\ source = "encode_steganographr"
    /\ DecodedBack("decode_steganographr", Ok(decode_steganographr(text)))

DecodeTagsPayload ==
    /\ source = "encode_tags"
    /\ DecodedBack("decode_unicode_tags", Ok(decode_unicode_tags(text)))

DecodeNaryPayload ==
    /\ source = "encode_330k"
    /\ DecodedBack("decode_nary", decode_nary(extract_all(text), args.chars))

AutoDecodePayload ==
    /\ pc = "encoded"
    /\ pc' = "done"
    /\ op' = "auto_decode"
    /\ ret' = auto_decode(text)
    /\ calls' = strategy_calls(text)
    /\ UNCHANGED <<args, text, source, overflow_checks, stdin, served, stdout>>

\* nothing is kept from one call to the next
Return ==
    /\ pc \in {"encoded", "done"}
    /\ pc' = "idle"
    /\ op' = "none"
    /\ args' = NoArgs
    /\ text' = <<>>
    /\ ret' = Ok(<<>>)
    /\ calls' = <<>>
    /\ source' = "input"
    /\ UNCHANGED <<overflow_checks, stdin, served, stdout>>

(***************************************************************************)
(* The JSON-RPC server on standard input and output                        *)
(***************************************************************************)
\* the most lines a client writes before it closes the input
MaxLines == 3

\* the tools call_tool knows
ToolNames ==
    {"zw_analyze", "zw_decode", "zw_encode", "zw_dump_raw", "zw_list_chars",
     "zw_list_presets"}

\* A line is modelled by what serde_json::from_str makes of it: json is
\* "empty" (no characters besides white space), "invalid" (not JSON),
\* "no_method" (a JSON object without the required method member) or
\* "request"; padded says that white space surrounds it; id is the id member
\* as JSON text, <<>> when absent; name is params.name of a tools/call.
Line(json, padded, method, id, name) ==
    [json |-> json, padded |-> padded, method |-> method, id |-> id,
     name |-> name]

Lines ==
    { Line("empty", FALSE, "", <<>>, ""),
      Line("empty", TRUE, "", <<>>, ""),
      Line("invalid", FALSE, "", <<>>, ""),
      Line("no_method", FALSE, "", <<"7">>, ""),
      Line("request", FALSE, "initialize", <<"7">>, ""),
      Line("request", FALSE, "notifications/initialized", <<>>, ""),
      Line("request", FALSE, "notifications/initialized", <<"7">>, ""),
      Line("request", FALSE, "tools/list", <<"7">>, ""),
      Line("request", FALSE, "tools/call", <<"7">>, "zw_list_chars"),
      Line("request", FALSE, "tools/call", <<"8">>, "zw_nothing"),
      Line("request", TRUE, "ping", <<"7">>, ""),
      Line("request", FALSE, "ping", <<"null">>, ""),
      Line("request", FALSE, "resources/list", <<>>, ""),
      Line("request", FALSE, "resources/list", <<"7">>, ""),
      Line("request", FALSE, "resources/list", <<"null">>, "") }

\* next_line gives None: the client closed the input
EndOfInput == Line("eof", FALSE, "", <<>>, "")

trim(line) == [line EXCEPT !.padded = FALSE]

is_empty(line) == line.json = "empty" /\ ~line.padded

\* Option<Value> reads a null id as None, like an absent one
JsonRpcRequest(line) ==
    [id |-> IF line.id = <<"null">> THEN <<>> ELSE line.id,
     method |-> line.method,
     name |-> line.name]

\* Ok(request) as <<request>>, Err as <<>>: jsonrpc and method are required
from_str(line) ==
    IF line.json = "request" THEN << JsonRpcRequest(line) >> ELSE <<>>

\* a response; id, result and error are left out of the JSON when None
success(id, result) == [id |-> id, result |-> <<result>>, error |-> <<>>]

error(id, code) == [id |-> id, result |-> <<>>, error |-> <<code>>]

Result(type, is_error) == [type |-> type, is_error |-> is_error]

\* every tool returns a ToolCallResult; an unknown name gives one with isError
call_tool(name) == Result("ToolCallResult", name \notin ToolNames)

\* handle_request answering an unknown method whether or not it has an id
handle_request_answering_notifications(req) ==
    CASE req.method = "initialize" ->
            << success(req.id, Result("InitializeResult", FALSE)) >>
      [] req.method = "notifications/initialized" -> <<>>
      [] req.method = "tools/list" ->
            << success(req.id, Result("ToolsListResult", FALSE)) >>
      [] req.method = "tools/call" ->
            << success(req.id, call_tool(req.name)) >>
      [] req.method = "ping" ->
            << success(req.id, Result("{}", FALSE)) >>
      [] OTHER -> << error(req.id, -32601) >>

\* Some(response) as <<response>>, None as <<>>
handle_request(req) ==
    CASE req.method = "initialize" ->
            << success(req.id, Result("InitializeResult", FALSE)) >>
      [] req.method = "notifications/initialized" -> <<>>
      [] req.method = "tools/list" ->
            << success(req.id, Result("ToolsListResult", FALSE)) >>
      [] req.method = "tools/call" ->
            << success(req.id, call_tool(req.name)) >>
      [] req.method = "ping" ->
            << success(req.id, Result("{}", FALSE)) >>
      [] OTHER ->
            IF req.id = <<>> THEN <<>> ELSE << error(req.id, -32601) >>

\* what one turn of the loop writes for the line it read
responses(line) ==
    IF is_empty(trim(line)) THEN <<>>
    ELSE IF from_str(trim(line)) = <<>> THEN << error(<<>>, -32700) >>
    ELSE handle_request(from_str(trim(line))[1])

closed == stdin # <<>> /\ stdin[Len(stdin)] = EndOfInput

stopped == served > 0 /\ stdin[served] = EndOfInput

\* the client writes one more line
WriteLine ==
    /\ ~closed
    /\ Len(stdin) < MaxLines
    /\ \E line \in Lines : stdin' = Append(stdin, line)
    /\ UNCHANGED <<pc, op, args, text, ret, calls, source, overflow_checks,
                   served, stdout>>

\* the client closes the input
CloseStdin ==
    /\ ~closed
    /\ stdin' = Append(stdin, EndOfInput)
    /\ UNCHANGED <<pc, op, args, text, ret, calls, source, overflow_checks,
                   served, stdout>>

\* one turn of run's loop: read the next line and answer it, or leave the
\* loop at the end of the input
Run ==
    /\ ~stopped
    /\ served < Len(stdin)
    /\ served' = served + 1
    /\ stdout' = IF stdin[served + 1] = EndOfInput THEN stdout
                 ELSE stdout \o responses(stdin[served + 1])
    /\ UNCHANGED <<pc, op, args, text, ret, calls, source, overflow_checks,
                   stdin>>

Next ==
    \/ Classify
    \/ Analyze
    \/ ExtractAll
    \/ ExtractSegments
    \/ Score
    \/ DecodeUnicodeTags
    \/ DecodeSteganographr
    \/ DecodeDirectBinary
    \/ DecodeNary
    \/ DecodeSegmentedBinary
    \/ AutoDecode
    \/ EncodeBinary
    \/ EncodeSteganographr
    \/ EncodeTags
    \/ Encode330k
    \/ ExecEncode
    \/ DecodeBinaryPayload
    \/ DecodeSteganographrPayload
    \/ DecodeTagsPayload
    \/ DecodeNaryPayload
    \/ AutoDecodePayload
    \/ Return
    \/ WriteLine
    \/ CloseStdin
    \/ Run

Spec == Init /\ [][Next]_vars

(***************************************************************************)
(* The same caller held to one family of calls: the classification of one  *)
(* character, the analysis of a text, the decoders on a text of the        *)
(* caller's choice, and the encoders followed by their decoders.           *)
(***************************************************************************)
NextChars == Classify \/ Return

SpecChars == Init /\ [][NextChars]_vars

NextAnalysis ==
    \/ Analyze
    \/ ExtractAll
    \/ ExtractSegments
    \/ Score
    \/ Return

SpecAnalysis == Init /\ [][NextAnalysis]_vars

NextDecode ==
    \/ DecodeUnicodeTags
    \/ DecodeSteganographr
    \/ DecodeDirectBinary
    \/ DecodeNary
    \/ DecodeSegmentedBinary
    \/ AutoDecode
    \/ Return

SpecDecode == Init /\ [][NextDecode]_vars

NextCodec ==
    \/ EncodeBinary
    \/ EncodeSteganographr
    \/ EncodeTags
    \/ Encode330k
    \/ DecodeBinaryPayload
    \/ DecodeSteganographrPayload
    \/ DecodeTagsPayload
    \/ DecodeNaryPayload
    \/ Return

SpecCodec == Init /\ [][NextCodec]_vars

NextNary == Encode330k \/ DecodeNaryPayload \/ Return

SpecNary == Init /\ [][NextNary]_vars

NextTool == ExecEncode \/ Return

SpecTool == Init /\ [][NextTool]_vars

NextRecover == ExecEncode \/ AutoDecodePayload \/ Return

SpecRecover == Init /\ [][NextRecover]_vars

\* The server alone. It is the only task of the process and blocks on
\* nothing but the read of the next line, so a line that was written gets
\* read: weak fairness on Run.
NextServer == WriteLine \/ CloseStdin \/ Run

SpecServer == Init /\ [][NextServer]_vars /\ WF_vars(Run)

(***************************************************************************)
(* Round trips: an encoder's output handed to its decoder                  *)
(***************************************************************************)
\* the call returned one result whose decoded text is msg
yields(r, msg) == ~r.panic /\ Len(r.val) = 1 /\ r.val[1].decoded = msg

\* the call returned normally and without a result
no_result(r) == ~r.panic /\ r.val = <<>>

below_128(msg) == \A i \in DOMAIN msg : msg[i] < 128

without_nul(msg) == SelectSeq(msg, LAMBDA c : c # 0)

\* the printability gate in the words of its description: the text is not
\* empty and more than half of its characters are \t, \n, \r or no control
\* character (U+0000..U+001F, U+007F..U+009F)
passes_gate(msg) ==
    /\ msg # <<>>
    /\ 2 * Cardinality({i \in DOMAIN msg :
                          \/ msg[i] \in {9, 10, 13}
                          \/ ~(msg[i] \in 0..31 \/ msg[i] \in 127..159)}) > Len(msg)

\* decode_direct_binary has run on encode_binary(msg, Z, O, 8), Z # O, msg < 128
BinaryRoundTrip ==
    /\ pc = "done"
    /\ source = "encode_binary"
    /\ op = "decode_direct_binary"
    /\ args.bits = 8
    /\ args.chars[1] # args.chars[2]
    /\ below_128(args.message)

\* C1 as stated: direct-binary round trip: for every message of code points
\* below 128, the empty one and those with U+0000 or mostly control
\* characters included, and distinct symbols Z, O, decoding
\* encode_binary(msg, Z, O, 8) with Z, O, 8 yields a result whose text is msg
C1_AsStated == BinaryRoundTrip => yields(ret, args.message)

\* C1 amended: for every message of code points below 128 and distinct symbols
\* Z, O, decoding encode_binary(msg, Z, O, 8) with Z, O, 8 yields msg without
\* its U+0000 characters when that text passes the printability gate (it is
\* not empty and more than half of it is non-control or \n, \r, \t), and no
\* result otherwise
C1_BinaryRoundTrip ==
    BinaryRoundTrip =>
        IF passes_gate(without_nul(args.message))
        THEN yields(ret, without_nul(args.message))
        ELSE no_result(ret)

\* "HI" came back through the symbols U+200C, U+200B
C1_Witness ==
    /\ BinaryRoundTrip
    /\ args.chars = <<8204, 8203>>
    /\ args.message = <<72, 73>>
    /\ yields(ret, <<72, 73>>)

printable_ascii(msg) == \A i \in DOMAIN msg : msg[i] >= 32 /\ msg[i] <= 126

\* encode_binary(msg, U+200B, U+200C, 8) has returned, msg printable ASCII
HiEncoded ==
    /\ source = "encode_binary"
    /\ pc \in {"encoded", "done"}
    /\ args.chars = <<8203, 8204>>
    /\ args.bits = 8
    /\ args.message # <<>>
    /\ printable_ascii(args.message)

\* C2: for a non-empty message of n printable ASCII characters,
\* encode_binary(msg, U+200B, U+200C, 8) returns exactly 8n symbols, each one
\* of the two, and decode_direct_binary on them with the same parameters
\* returns exactly msg
C2_EightSymbolsPerChar ==
    HiEncoded =>
        /\ ~ret.panic
        /\ Len(text) = 8 * Len(args.message)
        /\ \A i \in DOMAIN text : text[i] \in {8203, 8204}
        /\ op = "decode_direct_binary" => yields(ret, args.message)

\* "HI" gave 16 symbols, which decoded to "HI"
C2_Witness ==
    /\ HiEncoded
    /\ op = "decode_direct_binary"
    /\ args.message = <<72, 73>>
    /\ Len(text) = 16
    /\ yields(ret, <<72, 73>>)

\* decode_steganographr has run on encode_steganographr(msg, ""), msg ASCII
SteganographrRoundTrip ==
    /\ pc = "done"
    /\ source = "encode_steganographr"
    /\ op = "decode_steganographr"
    /\ args.cover = <<>>
    /\ below_128(args.message)

\* C3 as stated: Steganographr round trip: for every ASCII message (code
\* points 0..127, any length, the empty one included),
\* decode_steganographr(encode_steganographr(msg, "")) yields a result whose
\* text is msg
C3_AsStated == SteganographrRoundTrip => yields(ret, args.message)

\* C3 amended: for every ASCII message,
\* decode_steganographr(encode_steganographr(msg, "")) yields msg without its
\* U+0000 characters when that text passes the printability gate, and no result
\* otherwise
C3_SteganographrRoundTrip ==
    SteganographrRoundTrip =>
        IF passes_gate(without_nul(args.message))
        THEN yields(ret, without_nul(args.message))
        ELSE no_result(ret)

\* "IH" came back, from nine symbols a character
C3_Witness ==
    /\ SteganographrRoundTrip
    /\ args.message = <<73, 72>>
    /\ Len(text) = 18
    /\ yields(ret, <<73, 72>>)

\* decode_unicode_tags has run on encode_tags(msg, ""), msg of 1..127
TagsRoundTrip ==
    /\ pc = "done"
    /\ source = "encode_tags"
    /\ op = "decode_unicode_tags"
    /\ args.cover = <<>>
    /\ \A i \in DOMAIN args.message : args.message[i] >= 1 /\ args.message[i] <= 127

\* C4 as stated: Unicode-Tags round trip: for every message of code points
\* 1..127, those made mostly of control characters included,
\* decode_unicode_tags(encode_tags(msg, "")) yields a result whose text is msg
C4_AsStated == TagsRoundTrip => yields(ret, args.message)

\* C4 amended: for every message of code points 1..127,
\* decode_unicode_tags(encode_tags(msg, "")) yields msg when msg passes the
\* printability gate (it is not empty and more than half of it is non-control
\* or \n, \r, \t), and no result otherwise
C4_TagsRoundTrip ==
    TagsRoundTrip =>
        IF passes_gate(args.message)
        THEN yields(ret, args.message)
        ELSE no_result(ret)

\* "H" came back from its one tag character
C4_Witness ==
    /\ TagsRoundTrip
    /\ args.message = <<72>>
    /\ text = <<917576>>
    /\ yields(ret, <<72>>)

(***************************************************************************)
(* auto_decode, analyze, is_zero_width, score                              *)
(***************************************************************************)
no_zero_width(s) == \A i \in DOMAIN s : ~is_zero_width(s[i])

\* C5: auto_decode returns the empty list for every text without a zero-width
\* character, the empty text included, and runs no decode strategy on it
C5_NothingToDecode ==
    (op = "auto_decode" /\ no_zero_width(text)) =>
        /\ ret = Ok(<<>>)
        /\ calls = <<>>

\* auto_decode returned on "a\na", a text of visible and control characters
C5_Witness ==
    /\ op = "auto_decode"
    /\ text = <<97, 10, 97>>
    /\ ret = Ok(<<>>)
    /\ calls = <<>>

\* the sum of the counts of a distribution, counted as the number of pairs
\* (key, one of its occurrences)
occurrences(d) ==
    Cardinality(UNION {{<<k, n>> : n \in 1..d[k]} : k \in DOMAIN d})

\* C6: for every text the Analysis has zero_width_count equal to the sum of
\* the counts in distribution and unique_zw_chars equal to its number of
\* keys, every key is a zero-width code point counted at least once, and for
\* the empty text every numeric field is 0
C6_AnalysisAddsUp ==
    op = "analyze" =>
        LET a == ret.val
        IN  /\ a.zero_width_count = occurrences(a.distribution)
            /\ a.unique_zw_chars = Cardinality(DOMAIN a.distribution)
            /\ \A k \in DOMAIN a.distribution :
                  is_zero_width(k) /\ a.distribution[k] >= 1
            /\ text = <<>> =>
                  /\ a.total_chars = 0
                  /\ a.visible_chars = 0
                  /\ a.zero_width_count = 0
                  /\ a.unique_zw_chars = 0

\* analyze returned on ZWSP 'a' ZWSP: one key, counted twice
C6_Witness ==
    /\ op = "analyze"
    /\ text = <<8203, 97, 8203>>
    /\ ret.val.zero_width_count = 2
    /\ ret.val.unique_zw_chars = 1
    /\ ret.val.visible_chars = 1

\* C7: is_zero_width(ch) is true exactly when ch is the code point of a
\* catalog entry or lies in the tag range 0xE0000..0xE007F, and it is false
\* for every ASCII letter and digit
C7_RangesMatchCatalog ==
    op = "is_zero_width" =>
        /\ ret.val = (\/ args.ch \in Range(all_zero_width_chars)
                      \/ args.ch \in UNICODE_TAGS_START..UNICODE_TAGS_END)
        /\ is_ascii_alphanumeric(args.ch) => ret.val = FALSE

\* U+2069, the last code point of a range, was classified zero-width
C7_Witness ==
    /\ op = "is_zero_width"
    /\ args.ch = 8297
    /\ ret.val = TRUE

\* C8: score("") is 0 and score(text) >= 0 for every text, however long its
\* longest run of control characters other than \n, \r, \t
C8_ScoreNotNegative ==
    op = "score" =>
        /\ ret.val.den > 0
        /\ ret.val.num >= 0
        /\ text = <<>> => ret.val.num = 0

\* thirty U+0001 in a row, a penalty of 150 against at most 80 gained, scored 0
C8_Witness ==
    /\ op = "score"
    /\ text = Repeat(1, 30)
    /\ ret.val.num = 0

(***************************************************************************)
(* Faults                                                                  *)
(***************************************************************************)
\* a decoder has returned from a call with bits in {7, 8} where it takes bits
DecoderCalled ==
    /\ pc = "done"
    /\ op \in {"decode_unicode_tags", "decode_steganographr", "decode_direct_binary",
               "decode_nary", "decode_segmented_binary", "auto_decode"}
    /\ op \in {"decode_direct_binary", "decode_segmented_binary"} => args.bits \in {7, 8}

\* C9: no decode strategy faults: on every input, every zero/one symbol pair,
\* bits in {7, 8} and every charset, the five strategies and auto_decode
\* return normally, with None or an empty list where nothing is usable
C9_NoDecoderFaults ==
    DecoderCalled =>
        /\ ~ret.panic
        /\ \A i \in DOMAIN calls : calls[i].strategy # "index out of bounds"

\* decode_nary returned the empty list for a charset of one symbol on a
\* sequence made of that symbol, in a build that checks overflow
C9_Witness ==
    /\ DecoderCalled
    /\ op = "decode_nary"
    /\ args.chars = <<8203>>
    /\ text = <<8203, 8203>>
    /\ overflow_checks
    /\ ret = Ok(<<>>)

\* C10 as stated: every encoder is total: for every message, cover, bit
\* width and charset of any size the call returns a string without faulting
C10_AsStated ==
    op \in {"encode_binary", "encode_steganographr", "encode_tags", "encode_330k"}
        => ~ret.panic

(***************************************************************************)
(* The list auto_decode returns                                            *)
(***************************************************************************)
\* the results in the order the strategies found them, before the clean-up
Discovered ==
    Fold(LAMBDA acc, o : acc \o o.val, <<>>, strategy_outcomes(text))

\* the position of the first of found that decoded to msg
FirstFound(found, msg) ==
    CHOOSE k \in DOMAIN found :
        /\ found[k].decoded = msg
        /\ \A j \in 1..(k - 1) : found[j].decoded # msg

\* two results score the same
SameScore(a, b) == a.score.num * b.score.den = b.score.num * a.score.den

\* the place of a strategy in the order the claim names
StrategyRank(strategy) ==
    CASE strategy = "tags" -> 1
      [] strategy = "steganographr" -> 2
      [] strategy = "preset nary" -> 3
      [] strategy = "binary" -> 4
      [] strategy = "observed nary" -> 5
      [] strategy = "segmented" -> 6
      [] OTHER -> 0

\* C11: the list auto_decode returns is duplicate-free and ranked: no two
\* results have the same decoded text, the result kept for a text is the
\* first one found in strategy order (Unicode Tags, Steganographr, preset
\* N-ary, Direct Binary, observed-symbol N-ary, Segmented Binary), the scores
\* never increase along the list and equal scores keep the order of discovery
C11_DedupedAndRanked ==
    (pc = "done" /\ op = "auto_decode" /\ ~ret.panic) =>
        \A found \in {Discovered} :
            LET out == ret.val
            IN  /\ \A i, j \in DOMAIN calls :
                      i < j => StrategyRank(calls[i].strategy)
                                   <= StrategyRank(calls[j].strategy)
                /\ \A i, j \in DOMAIN out : i < j => out[i].decoded # out[j].decoded
                /\ \A k \in DOMAIN found : \E i \in DOMAIN out : out[i].decoded = found[k].decoded
                /\ \A i \in DOMAIN out :
                      /\ \E k \in DOMAIN found : found[k].decoded = out[i].decoded
                      /\ out[i] = found[FirstFound(found, out[i].decoded)]
                /\ \A i, j \in DOMAIN out :
                      i < j =>
                          /\ out[i].score.num * out[j].score.den
                                 >= out[j].score.num * out[i].score.den
                          /\ SameScore(out[i], out[j]) =>
                                 FirstFound(found, out[i].decoded)
                                     < FirstFound(found, out[j].decoded)

\* auto_decode returned a list from which a repeated text was dropped, with
\* two results of the same score and a result that moved ahead of an earlier one
C11_Witness ==
    /\ pc = "done" /\ op = "auto_decode" /\ ~ret.panic
    /\ \E found \in {Discovered} :
          /\ Len(ret.val) < Len(found)
          /\ \E i, j \in DOMAIN ret.val : i < j /\ SameScore(ret.val[i], ret.val[j])
          /\ \E i, j \in DOMAIN ret.val :
                i < j /\ FirstFound(found, ret.val[i].decoded)
                             > FirstFound(found, ret.val[j].decoded)

(***************************************************************************)
(* The cover splice                                                        *)
(***************************************************************************)
\* C12 as stated: the cover splice is the same for all four encoders (binary
\* as the zw_encode tool exposes it, steganographr, tags, 330k): a cover of
\* more than one character yields its first floor(n/2) characters, the
\* payload, then the rest of the cover; an empty cover or a cover of a single
\* character, of any byte length, yields the payload alone
C12_AsStated ==
    (pc \in {"encoded", "done"} /\ op = "exec_encode" /\ ~ret.panic
        /\ args.method \in {"binary", "steganographr", "tags", "330k"}) =>
        LET cover == args.cover
            payload == exec_encode(args.method, args.message, <<>>).val
            mid == Len(cover) \div 2
        IN  ret.val = IF Len(cover) > 1
                      THEN SubSeq(cover, 1, mid) \o payload
                               \o SubSeq(cover, mid + 1, Len(cover))
                      ELSE payload

(***************************************************************************)
(* The sweep of auto_decode                                                *)
(***************************************************************************)
\* the distinct zero-width symbols of the text
DistinctSymbols == {text[i] : i \in {k \in DOMAIN text : is_zero_width(text[k])}}

\* auto_decode ran decode_nary on the n most frequent observed symbols
ObservedNaryTried(n) ==
    \E i \in DOMAIN calls :
        /\ calls[i].strategy = "observed nary"
        /\ calls[i].chars = SubSeq(top_chars_of(analyze(text).distribution), 1, n)

\* C14 as stated: on a text with k >= 3 distinct zero-width symbols auto_decode
\* runs the N-ary strategy with the top-N observed charset for every N with
\* 3 <= N <= min(9, k), both ends included: with exactly 3 distinct symbols
\* the 3-symbol charset is tried, with 9 or more the 9-symbol charset is tried
C14_AsStated ==
    (pc = "done" /\ op = "auto_decode" /\ Cardinality(DistinctSymbols) >= 3) =>
        \A n \in 3..Min(9, Cardinality(DistinctSymbols)) : ObservedNaryTried(n)

(***************************************************************************)
(* Segmented binary                                                        *)
(***************************************************************************)
\* decode_segmented_binary has returned from a call; text holds the segments
SegmentedCalled == pc = "done" /\ op = "decode_segmented_binary"

\* the symbols of a segment that are zero_char or one_char
PairSymbols(seg) == SelectSeq(seg, LAMBDA c : c \in {args.chars[1], args.chars[2]})

\* the big-endian value of those symbols, zero_char for 0 and any other for 1
SegmentValue(seg) ==
    Fold(LAMBDA v, c : 2 * v + (IF c = args.chars[1] THEN 0 ELSE 1), 0, PairSymbols(seg))

\* the segment counts bits of the two symbols and their value is in (0, 128)
SegmentDecodes(seg) ==
    /\ Len(PairSymbols(seg)) = args.bits
    /\ SegmentValue(seg) > 0
    /\ SegmentValue(seg) < 128

\* C15 as stated: decode_segmented_binary returns no result whenever any
\* segment contains a symbol other than zero_char and one_char, even if the
\* segment also holds exactly bits of the two; it returns none when a
\* segment's count differs from bits or its value is outside (0, 128); a
\* result has one character per segment
C15_AsStated ==
    SegmentedCalled =>
        /\ (\E i \in DOMAIN text : PairSymbols(text[i]) # text[i]) => ret.val = <<>>
        /\ (\E i \in DOMAIN text : ~SegmentDecodes(text[i])) => ret.val = <<>>
        /\ ret.val # <<>> => Len(ret.val[1].decoded) = Len(text)

\* C15: decode_segmented_binary leaves out of every segment the symbols other
\* than zero_char and one_char; it returns no result when the number of the
\* two symbols in some segment differs from bits, when some segment's value
\* is outside (0, 128), or when the text fails the gate; otherwise it returns
\* one result whose text has one character per segment, the segment's value
C15_ForeignSymbolsIgnored ==
    SegmentedCalled =>
        LET decoded == [i \in DOMAIN text |-> SegmentValue(text[i])]
        IN  IF (\A i \in DOMAIN text : SegmentDecodes(text[i])) /\ passes_gate(decoded)
            THEN /\ Len(ret.val) = 1
                 /\ ret.val[1].decoded = decoded
                 /\ Len(ret.val[1].decoded) = Len(text)
            ELSE ret.val = <<>>

\* a result was returned for a segment that holds 8 of the two symbols and a
\* third symbol
C15_Witness ==
    /\ SegmentedCalled
    /\ args.bits = 8
    /\ \E i \in DOMAIN text : PairSymbols(text[i]) # text[i]
    /\ ret.val # <<>>
    /\ ret.val[1].decoded = <<65>>

(***************************************************************************)
(* N-ary decoding                                                          *)
(***************************************************************************)
\* decode_nary has returned from a call on a text and a charset of the
\* caller's choice, of two symbols or more
NaryCalled ==
    /\ pc = "done" /\ op = "decode_nary" /\ source = "input"
    /\ Len(args.chars) >= 2

\* the digits of the text: the index of each symbol of the charset, the last
\* index where the charset repeats a symbol
Digits ==
    LET known == SelectSeq(text, LAMBDA c : \E i \in DOMAIN args.chars : args.chars[i] = c)
    IN  [k \in DOMAIN known |->
            CHOOSE d \in 0..(Len(args.chars) - 1) :
                /\ args.chars[d + 1] = known[k]
                /\ \A e \in DOMAIN args.chars : args.chars[e] = known[k] => e <= d + 1]

\* the big-endian value of the g digits of the k-th full group in the base of
\* the charset, or 0x110000 where the value is that or more
GroupNumber(digits, g, k) ==
    Fold(LAMBDA v, d : Min(v * Len(args.chars) + d, 1114112), 0,
         SubSeq(digits, (k - 1) * g + 1, k * g))

\* a number that is a character: a Unicode scalar value other than U+0000
IsCharacter(v) == v > 0 /\ v < 1114112 /\ ~(v >= 55296 /\ v <= 57343)

\* the text the full groups of size g spell, zero groups left out
FullGroupsText(digits, g) ==
    LET numbers == [k \in 1..(Len(digits) \div g) |-> GroupNumber(digits, g, k)]
    IN  SelectSeq(numbers, LAMBDA v : v # 0)

\* every full group of size g is zero or a character
FullGroupsValid(digits, g) ==
    \A k \in 1..(Len(digits) \div g) :
        GroupNumber(digits, g, k) = 0 \/ IsCharacter(GroupNumber(digits, g, k))

\* the results decode_nary returned for group size g
ResultsOfSize(g) == SelectSeq(ret.val, LAMBDA r : r.method.n = g)

\* C16 as stated: in decode_nary, for a group size that does not divide the
\* number of digits the short trailing group aborts the candidate: no
\* DecodeResult is produced for that group size
C16_AsStated ==
    NaryCalled =>
        \A digits \in {Digits} :
            \A i \in DOMAIN ret.val : Len(digits) % ret.val[i].method.n = 0

\* the least number of digits whose base-B numbers reach 2^16
DefaultGroupSize ==
    CHOOSE n \in 1..16 :
        /\ Fold(LAMBDA p, i : Min(p * Len(args.chars), 65536), 1, [i \in 1..n |-> i]) = 65536
        /\ Fold(LAMBDA p, i : Min(p * Len(args.chars), 65536), 1, [i \in 1..(n - 1) |-> i]) < 65536

\* the group sizes of the spec: {g - 1, g, g + 1} and {4, ..., 8}, within [1, 16]
TriedSizes ==
    ({DefaultGroupSize - 1, DefaultGroupSize, DefaultGroupSize + 1} \cup (4..8)) \cap (1..16)

\* the text is accepted: not empty, through the gate, scoring above 15
Accepted(decoded) ==
    /\ decoded # <<>>
    /\ passes_gate(decoded)
    /\ score_gt(score(decoded), 15)

\* C16: in decode_nary, for a group size that does not divide the number of
\* digits the short trailing group is left out and the candidate is decided
\* by the full groups before it: there is a result of that group size exactly
\* when every full group is zero or a character and the text they spell is
\* accepted, and the result is that text
C16_ShortGroupLeftOut ==
    NaryCalled =>
        \A digits \in {Digits} :
            \A g \in TriedSizes :
                Len(digits) % g # 0 =>
                    IF FullGroupsValid(digits, g) /\ Accepted(FullGroupsText(digits, g))
                    THEN /\ Len(ResultsOfSize(g)) = 1
                         /\ ResultsOfSize(g)[1].decoded = FullGroupsText(digits, g)
                    ELSE ResultsOfSize(g) = <<>>

\* decode_nary returned a result of 7 digits per group for 8 digits
C16_Witness ==
    /\ NaryCalled
    /\ Len(Digits) = 8
    /\ ResultsOfSize(7) # <<>>
    /\ ResultsOfSize(7)[1].decoded = <<32>>

\* C17: decode_nary accumulates a group with arithmetic that saturates at
\* 2^32 - 1; a group whose value is 0x110000 or more, or no Unicode scalar
\* value, leaves its candidate group size without a result; a group of value
\* 0 adds no character and does not abort the candidate; a candidate is
\* returned only if its text is not empty, passes the gate and scores
\* strictly above 15
C17_SaturatingGroups ==
    NaryCalled =>
        \A digits \in {Digits} :
            /\ \A i \in DOMAIN ret.val :
                  /\ ret.val[i].method.n \in TriedSizes
                  /\ Accepted(ret.val[i].decoded)
            /\ \A g \in TriedSizes :
                  IF digits # <<>> /\ FullGroupsValid(digits, g)
                        /\ Accepted(FullGroupsText(digits, g))
                  THEN /\ Len(ResultsOfSize(g)) = 1
                       /\ ResultsOfSize(g)[1].decoded = FullGroupsText(digits, g)
                  ELSE ResultsOfSize(g) = <<>>

\* decode_nary on the 8 base-17 digits of 2^32 + 65: no result of group size
\* 8, where a wrapped sum would spell "A", and a result of group size 4
C17_Witness ==
    /\ NaryCalled
    /\ args.chars = SeventeenSymbols
    /\ text = <<8288, 8236, 8293, 8293, 8291, 8288, 8290, 8293>>
    /\ GroupNumber(Digits, 8, 1) = 1114112
    /\ ResultsOfSize(8) = <<>>
    /\ ResultsOfSize(4) # <<>>
    /\ ResultsOfSize(4)[1].decoded = <<51423, 66978>>

(***************************************************************************)
(* The size of the search                                                  *)
(***************************************************************************)
\* the calls auto_decode made of one strategy
CallsOf(strategy) == SelectSeq(calls, LAMBDA c : c.strategy = strategy)

\* the symbols those calls used
SymbolsOf(strategy) ==
    UNION {Range(CallsOf(strategy)[i].chars) : i \in DOMAIN CallsOf(strategy)}

\* the group sizes decode_nary goes through for a charset, those it skips left out
SizesTriedFor(charset) ==
    SelectSeq(try_sizes(chars_per_unicode(Len(charset))), LAMBDA g : g >= 1 /\ g <= 16)

\* at most 8 group sizes, no two the same
AtMostEightSizes(charset) ==
    LET sizes == SizesTriedFor(charset)
    IN  /\ Len(sizes) <= 8
        /\ Cardinality(Range(sizes)) = Len(sizes)

\* C18: the search is bounded whatever the text: Direct Binary uses at most
\* 6 symbols (at most 60 calls), Segmented Binary at most 4 (at most 24
\* calls), the observed-symbol N-ary charsets have at most 9 symbols, the
\* preset N-ary strategy is called at most 6 times, and each decode_nary
\* call tries at most 8 distinct group sizes, each within [1, 16]
C18_SearchBounded ==
    /\ (pc = "done" /\ op = "auto_decode") =>
          /\ Cardinality(SymbolsOf("binary")) <= 6
          /\ Len(CallsOf("binary")) <= 60
          /\ Cardinality(SymbolsOf("segmented")) <= 4
          /\ Len(CallsOf("segmented")) <= 24
          /\ \A i \in DOMAIN CallsOf("observed nary") :
                Len(CallsOf("observed nary")[i].chars) <= 9
          /\ Len(CallsOf("preset nary")) <= 6
          /\ \A i \in DOMAIN calls :
                calls[i].strategy \in {"preset nary", "observed nary"}
                    => AtMostEightSizes(calls[i].chars)
    /\ NaryCalled =>
          /\ AtMostEightSizes(args.chars)
          /\ Len(ret.val) <= 8
          /\ \A i \in DOMAIN ret.val :
                /\ ret.val[i].method.n >= 1 /\ ret.val[i].method.n <= 16
                /\ \A j \in DOMAIN ret.val : i # j => ret.val[i].method.n # ret.val[j].method.n

\* auto_decode on a text of ten distinct symbols made 60 Direct Binary calls
\* on 6 symbols and 24 Segmented Binary calls on 4
C18_Witness ==
    /\ pc = "done" /\ op = "auto_decode"
    /\ Cardinality(DistinctSymbols) = 10
    /\ Len(CallsOf("binary")) = 60
    /\ Cardinality(SymbolsOf("binary")) = 6
    /\ Len(CallsOf("segmented")) = 24
    /\ Cardinality(SymbolsOf("segmented")) = 4
    /\ Len(CallsOf("observed nary")) = 6

(***************************************************************************)
(* What a DecodeResult holds                                               *)
(***************************************************************************)
\* C19: every DecodeResult returned by any of the five decode strategies, and
\* so every element of the list of auto_decode, has a decoded text that is
\* not empty and in which strictly more than half of the characters are
\* non-control or one of \n, \r, \t; its score is score(decoded) and is >= 0
C19_ResultsPassTheGate ==
    (/\ pc = "done" /\ ~ret.panic
     /\ op \in {"decode_unicode_tags", "decode_steganographr", "decode_direct_binary",
                "decode_nary", "decode_segmented_binary", "auto_decode"}) =>
        \A i \in DOMAIN ret.val :
            /\ ret.val[i].decoded # <<>>
            /\ passes_gate(ret.val[i].decoded)
            /\ ret.val[i].score = score(ret.val[i].decoded)
            /\ ret.val[i].score.num >= 0
            /\ ret.val[i].score.den > 0

\* decode_unicode_tags returned "Hi" followed by U+0001: a text with a control
\* character that passes the gate
C19_Witness ==
    /\ DecoderCalled
    /\ op = "decode_unicode_tags"
    /\ text = <<917576, 917609, 917505>>
    /\ Len(ret.val) = 1
    /\ ret.val[1].decoded = <<72, 105, 1>>
    /\ ret.val[1].score.num > 0

(***************************************************************************)
(* Steganographr groups                                                    *)
(***************************************************************************)
SteganographrCalled ==
    pc = "done" /\ op = "decode_steganographr" /\ source = "input"

\* the U+2060, U+200B and U+200C of the text, in their order
ThreeSymbols == SelectSeq(text, LAMBDA c : c \in {8288, 8203, 8204})

\* the groups between the U+2060 of those symbols, empty ones left out
BitGroups ==
    LET zw == ThreeSymbols
        at == SelectSeq([i \in DOMAIN zw |-> i], LAMBDA i : zw[i] = 8288)
        cuts == <<0>> \o at \o <<Len(zw) + 1>>
        all == [k \in 1..(Len(cuts) - 1) |-> SubSeq(zw, cuts[k] + 1, cuts[k + 1] - 1)]
    IN  SelectSeq(all, LAMBDA g : g # <<>>)

\* the big-endian value of a group, U+200C for 1, or 0x110000 where the
\* value is that or more
BitsNumber(group) ==
    Fold(LAMBDA v, c : Min(2 * v + (IF c = 8204 THEN 1 ELSE 0), 1114112), 0, group)

\* C20 as stated: decode_steganographr considers only U+2060, U+200B and
\* U+200C in their order, splits at every U+2060, and for every group with at
\* least one bit symbol, of any length, emits nothing if the group's
\* big-endian value is 0 and exactly one character if it is not
C20_AsStated ==
    (SteganographrCalled /\ ret.val # <<>>) =>
        Len(ret.val[1].decoded)
            = Len(SelectSeq(BitGroups, LAMBDA g : BitsNumber(g) # 0))

\* C20: decode_steganographr considers only U+2060, U+200B and U+200C in
\* their order, splits at every U+2060, and for every group with at least one
\* bit symbol emits the character of the group's big-endian value if that is
\* a Unicode scalar value other than 0, and nothing if it is 0, a surrogate
\* or above 0x10FFFF (a value that does not fit 32 bits included); the text
\* is returned when it is not empty and passes the gate
C20_OneCharacterPerScalarGroup ==
    SteganographrCalled =>
        LET numbers == [k \in DOMAIN BitGroups |-> BitsNumber(BitGroups[k])]
            emitted == SelectSeq(numbers, IsCharacter)
        IN  IF passes_gate(emitted)
            THEN Len(ret.val) = 1 /\ ret.val[1].decoded = emitted
            ELSE ret.val = <<>>

\* of the groups of FourGroups only that of 'H' gave a character
C20_Witness ==
    /\ SteganographrCalled
    /\ text = FourGroups
    /\ Len(BitGroups) = 4
    /\ Len(ret.val) = 1
    /\ ret.val[1].decoded = <<72>>

(***************************************************************************)
(* Segments                                                                *)
(***************************************************************************)
SegmentsCalled == pc = "done" /\ op = "extract_segments"

\* the positions where a run of zero-width characters starts
RunStarts ==
    SelectSeq([i \in DOMAIN text |-> i],
              LAMBDA i : is_zero_width(text[i]) /\ (i = 1 \/ ~is_zero_width(text[i - 1])))

\* the last position of the run that starts at a
RunEnd(a) ==
    CHOOSE b \in a..Len(text) :
        /\ \A i \in a..b : is_zero_width(text[i])
        /\ b = Len(text) \/ ~is_zero_width(text[b + 1])

\* C21: extract_segments(text) returns, in order, exactly the maximal
\* contiguous runs of zero-width characters of text: a run is closed at every
\* visible character, every segment is non-empty and holds only zero-width
\* characters, a run that reaches the end of the text is included, and
\* consecutive visible characters give no empty segment
C21_MaximalRuns ==
    SegmentsCalled =>
        /\ Len(ret.val) = Len(RunStarts)
        /\ \A k \in DOMAIN ret.val :
              /\ ret.val[k] = SubSeq(text, RunStarts[k], RunEnd(RunStarts[k]))
              /\ ret.val[k] # <<>>
              /\ \A i \in DOMAIN ret.val[k] : is_zero_width(ret.val[k][i])

\* three segments: a run closed by a control character, one closed by a
\* visible character followed by another, and one that reaches the end
C21_Witness ==
    /\ SegmentsCalled
    /\ text = <<8203, 10, 1, 8204, 8288, 97, 98, 65279>>
    /\ ret.val = << <<8203>>, <<8204, 8288>>, <<65279>> >>

\* the segments put end to end
Joined(segments) == Fold(LAMBDA acc, seg : acc \o seg, <<>>, segments)

\* C22: for every text the segments of extract_segments(text), concatenated
\* in order, are exactly the sequence extract_all(text): no zero-width
\* character is dropped, repeated or moved, also when the characters between
\* the runs are control characters
C22_SegmentsJoinToAll ==
    SegmentsCalled => Joined(ret.val) = extract_all(text)

\* the three segments of a text whose runs are parted by a newline, a control
\* character and two letters join to its four zero-width characters
C22_Witness ==
    /\ SegmentsCalled
    /\ text = <<8203, 10, 1, 8204, 8288, 97, 98, 65279>>
    /\ Len(ret.val) = 3
    /\ Joined(ret.val) = <<8203, 8204, 8288, 65279>>
    /\ extract_all(text) = <<8203, 8204, 8288, 65279>>

(***************************************************************************)
(* N-ary round trip                                                        *)
(***************************************************************************)
\* decode_nary has run on extract_all(encode_330k(msg, "", charset)) with the
\* same charset of two or more distinct zero-width symbols, msg a non-empty
\* message of code points 1..0xFFFF that passes the gate and scores above 15
NaryRoundTrip ==
    /\ pc = "done"
    /\ source = "encode_330k"
    /\ op = "decode_nary"
    /\ args.cover = <<>>
    /\ Len(args.chars) >= 2
    /\ \A i, j \in DOMAIN args.chars :
          /\ is_zero_width(args.chars[i])
          /\ i # j => args.chars[i] # args.chars[j]
    /\ args.message # <<>>
    /\ \A i \in DOMAIN args.message : args.message[i] >= 1 /\ args.message[i] <= 65535
    /\ Accepted(args.message)

\* C23: N-ary round trip: for every charset of B >= 2 distinct zero-width
\* symbols and every non-empty message of code points 1..0xFFFF that passes
\* the gate and scores above 15, decode_nary(extract_all(encode_330k(msg, "",
\* charset)), charset) contains a result whose text is msg, found with group
\* size ceil(16 / log2(B)), the digits the encoder emits per character
C23_NaryRoundTrip ==
    NaryRoundTrip =>
        /\ ~ret.panic
        /\ Len(text) = DefaultGroupSize * Len(args.message)
        /\ \E i \in DOMAIN ret.val :
              /\ ret.val[i].decoded = args.message
              /\ ret.val[i].method.n = DefaultGroupSize

\* U+FFFF and "H" came back from 2 * 11 symbols of a three-symbol charset
C23_Witness ==
    /\ NaryRoundTrip
    /\ args.chars = <<8288, 8203, 8204>>
    /\ args.message = <<65535, 72>>
    /\ Len(text) = 22
    /\ \E i \in DOMAIN ret.val :
          ret.val[i].decoded = <<65535, 72>> /\ ret.val[i].method.n = 11

(***************************************************************************)
(* The payload inside a cover                                              *)
(***************************************************************************)
\* one of the three encoders that take a cover has returned, the cover
\* holding no zero-width character
CoverEncoded ==
    /\ pc \in {"encoded", "done"}
    /\ op \in {"encode_steganographr", "encode_tags", "encode_330k"}
    /\ \A i \in DOMAIN args.cover : ~is_zero_width(args.cover[i])

\* what the same encoder returns for the same message with the empty cover
BarePayload ==
    CASE op = "encode_steganographr" -> Ok(encode_steganographr(args.message, <<>>))
      [] op = "encode_tags" -> Ok(encode_tags(args.message, <<>>))
      [] op = "encode_330k" -> encode_330k(args.message, <<>>, args.chars)

\* C24: embedding in a cover does not alter the payload: for
\* encode_steganographr, encode_tags and encode_330k, every message and every
\* cover without zero-width characters, extract_all(encode(msg, cover)) is
\* extract_all(encode(msg, "")): a decoder sees the same zero-width sequence
\* with the cover as without it
C24_CoverKeepsPayload ==
    CoverEncoded =>
        \A bare \in {BarePayload} :
            /\ ret.panic = bare.panic
            /\ ~ret.panic => extract_all(ret.val) = extract_all(bare.val)

\* the tag of "H" between the two letters of the cover "ab"
C24_Witness ==
    /\ CoverEncoded
    /\ op = "encode_tags"
    /\ args.message = <<72>>
    /\ args.cover = <<97, 98>>
    /\ ret.val = <<97, 917576, 98>>
    /\ extract_all(ret.val) = <<917576>>

(***************************************************************************)
(* Recovery of a message hidden by the zw_encode tool                      *)
(***************************************************************************)
\* auto_decode has run on what the tool's binary method returned for a
\* non-empty message of code points 1..127 that passes the gate and scores
\* above 15, and a cover without zero-width characters
BinaryRecovery ==
    /\ pc = "done"
    /\ op = "auto_decode"
    /\ source = "exec_encode"
    /\ args.method = "binary"
    /\ args.message # <<>>
    /\ \A i \in DOMAIN args.message : args.message[i] >= 1 /\ args.message[i] <= 127
    /\ Accepted(args.message)
    /\ \A i \in DOMAIN args.cover : ~is_zero_width(args.cover[i])

\* C25: end-to-end recovery: for every non-empty message of code points
\* 1..127 that passes the gate and scores above 15 and every cover without
\* zero-width characters, auto_decode on the cover with
\* encode_binary(msg, U+200B, U+200C, 8) spliced in returns a list that
\* contains a result whose text is msg
C25_MessageRecovered ==
    BinaryRecovery =>
        /\ ~ret.panic
        /\ \E i \in DOMAIN ret.val : ret.val[i].decoded = args.message

\* "H", U+0001, "I" recovered from the 24 symbols between the letters of "ab"
C25_Witness ==
    /\ BinaryRecovery
    /\ args.message = <<72, 1, 73>>
    /\ args.cover = <<97, 98>>
    /\ Len(text) = 26
    /\ text[1] = 97 /\ text[26] = 98
    /\ \E i \in DOMAIN ret.val : ret.val[i].decoded = <<72, 1, 73>>

(***************************************************************************)
(* The server's answers, line by line                                      *)
(***************************************************************************)
\* the lines read so far, the end of the input left out
LinesRead == SelectSeq(SubSeq(stdin, 1, served), LAMBDA l : l # EndOfInput)

\* an id the server sees: the member is there and is not null
HasId(line) == line.id # <<>> /\ line.id # <<"null">>

Unparsable(line) == line.json \in {"invalid", "no_method"}

ServedMethods == {"initialize", "tools/list", "tools/call", "ping"}

\* the lines the statement gives a response to
Answered(line) ==
    \/ Unparsable(line)
    \/ /\ line.json = "request"
       /\ \/ line.method \in ServedMethods
          \/ line.method # "notifications/initialized" /\ HasId(line)

\* the response the statement gives to an answered line
Answers(line, resp) ==
    IF Unparsable(line)
    THEN resp.error = <<-32700>> /\ resp.id = <<>> /\ resp.result = <<>>
    ELSE IF line.method \in ServedMethods
    THEN /\ resp.error = <<>>
         /\ Len(resp.result) = 1
         /\ resp.id = IF HasId(line) THEN line.id ELSE <<>>
    ELSE resp.error = <<-32601>> /\ resp.id = line.id /\ resp.result = <<>>

\* the number of answered lines among the first i lines read
AnsweredUpTo(i) ==
    Len(SelectSeq(SubSeq(LinesRead, 1, i), LAMBDA l : Answered(l)))

AnsweredInOrder ==
    /\ Len(stdout) = AnsweredUpTo(Len(LinesRead))
    /\ \A i \in DOMAIN LinesRead :
          Answered(LinesRead[i]) => Answers(LinesRead[i], stdout[AnsweredUpTo(i)])

====
